---- MODULE Spec2Model ----
(***************************************************************************)
(* A model of the Control Concealer controller                             *)
(* (src/scripts/control-concealer.js): the profile store, the visibility   *)
(* applier, the edit-mode controller, the legacy migration and the         *)
(* injection of the controller's own buttons.                              *)
(*                                                                         *)
(* The host (hooks, settings, flags, DOM) is the environment: the DOM is a *)
(* small fixed sample of elements, each with the selectors that match it;  *)
(* host settings and user flags are maps the controller reads and writes.  *)
(***************************************************************************)
EXTENDS Integers, Sequences, FiniteSets, TLC

VARIABLES
    editing,         \* this.editing
    activeProfile,   \* this.activeProfile
    profiles,        \* this.profiles: profile id -> [name, hiddenElements]
    addedButtons,    \* this.addedButtons
    savedProfiles,   \* host client setting "profiles" (the persisted collection)
    userFlags,       \* host user flags of the module: flag name -> value
    hidden,          \* elements carrying the class control-concealer-hide
    hideActive,      \* body carries the class cc-hide-active
    delegated,       \* handlers bound as contextmenu.control-concealer on document
    globalHandlers,  \* handlers bound as contextmenu.control-concealer-global
    hotbarHandlers,  \* handlers bound on each '#hotbar .macro' element
    sidebarHandlers, \* handlers bound on each '#sidebar-tabs .item' element
    mainControls,    \* the host has rendered '#controls .main-controls'
    containers,      \* the injected #control-concealer containers, in document order
    pendingRenders,  \* renderProfileButtons calls suspended at await renderTemplate
    observers,       \* MutationObservers created by setupButtonObserver
    callbacks,       \* observer callbacks queued and not yet run
    ready,           \* the host's 'ready' hook has fired in this session
    notification,    \* the last ui.notifications message
    dom              \* the elements of the host page the model tracks

vars == <<editing, activeProfile, profiles, addedButtons, savedProfiles, userFlags,
          hidden, hideActive, delegated, globalHandlers, hotbarHandlers,
          sidebarHandlers, mainControls, containers, pendingRenders, observers,
          callbacks, ready, notification, dom>>

-----------------------------------------------------------------------------
(* Bounds of the model *)

\* binding of edit-mode listeners is repeated at most this often in one edit session
MaxHandlers == 2
\* injected containers plus suspended template renders
MaxContainers == 2
\* MutationObservers alive in one session
MaxObservers == 2
\* length of the legacy hiddencontrols and hiddentools arrays
MaxLegacyLen == 2
\* length of a legacy tools array and of hiddentabs
MaxLegacyTools == 1

-----------------------------------------------------------------------------
(* Static data *)

UI_SELECTORS ==
    << "#controls", ".scene-control", ".control-tool",
       "#sidebar", "#sidebar-tabs",
       "#sidebar-tabs .item[data-tab=\"chat\"]",
       "#sidebar-tabs .item[data-tab=\"combat\"]",
       "#sidebar-tabs .item[data-tab=\"scenes\"]",
       "#sidebar-tabs .item[data-tab=\"actors\"]",
       "#sidebar-tabs .item[data-tab=\"items\"]",
       "#sidebar-tabs .item[data-tab=\"journal\"]",
       "#sidebar-tabs .item[data-tab=\"tables\"]",
       "#sidebar-tabs .item[data-tab=\"cards\"]",
       "#sidebar-tabs .item[data-tab=\"playlists\"]",
       "#sidebar-tabs .item[data-tab=\"compendium\"]",
       "#sidebar-tabs .item[data-tab=\"settings\"]",
       "#players", "#player-list .player",
       "#hotbar", "#hotbar .macro", "#hotbar .bar-controls",
       "#ui-top .scene-control",
       "#navigation", "#nav-toggle", "#scene-list .scene",
       "#chat", "#chat-controls", "#chat-form",
       "#combat", "#combat-tracker", "#combat-controls",
       "#audio-controls", "#ui-right .control",
       "#pause", "#fps", "#logo" >>

Catalog == {UI_SELECTORS[i] : i \in DOMAIN UI_SELECTORS}

EmptyMap == [k \in {} |-> TRUE]

DEFAULT_PROFILES ==
    [id \in {"dev", "prod"} |->
        [name |-> "CONTROLCONCEALER.profile." \o id, hiddenElements |-> EmptyMap]]

ProfileIds == DOMAIN DEFAULT_PROFILES

FLAG_ACTIVE_PROFILE == "activeProfile"

\* applyProfile() called with no argument: profileId is undefined (falsy)
NoArg == ""

-----------------------------------------------------------------------------
(* The selectors the legacy migration builds *)

\* the child number taken 0-based
SceneControlSelector_ZeroBased(index) ==
    ".scene-control:nth-child(" \o ToString(index) \o ")"

\* `.scene-control:nth-child(${parseInt(index) + 1})`, index the 0-based array index
SceneControlSelector(index) ==
    ".scene-control:nth-child(" \o ToString(index + 1) \o ")"

ToolSelector(controlIndex, toolIndex) ==
    SceneControlSelector(controlIndex) \o " + .sub-controls .control-tool:nth-child("
        \o ToString(toolIndex + 1) \o ")"

TabSelector(tabId) == "#sidebar-tabs .item[data-tab=\"" \o tabId \o "\"]"

-----------------------------------------------------------------------------
(* The elements of the host page: two scene controls (children 1 and 2 of    *)
(* .main-controls), the #controls region around them, one hotbar macro, the  *)
(* core "chat" sidebar tab and one sidebar tab item that is not a core tab   *)
(* ("foo", as a module adds one). A page holds a subset of them (dom).       *)

Elements == {"controls", "sc1", "sc2", "macro1", "tabChat", "tabFoo"}

SelectorsOf(e) ==
    CASE e = "controls" -> {"#controls"}
      [] e = "sc1"      -> {".scene-control", ".scene-control:nth-child(1)"}
      [] e = "sc2"      -> {".scene-control", ".scene-control:nth-child(2)"}
      [] e = "macro1"   -> {"#hotbar .macro"}
      [] e = "tabChat"  -> {"#sidebar-tabs .item[data-tab=\"chat\"]"}
      [] e = "tabFoo"   -> {"#sidebar-tabs .item[data-tab=\"foo\"]"}

\* every selector the model uses: the catalog and what the migration can build
Selectors == Catalog \cup UNION {SelectorsOf(e) : e \in Elements}

\* the elements of the full page a selector matches
MatchTable == [sel \in Selectors |-> {e \in Elements : sel \in SelectorsOf(e)}]

\* $(selector)
Match(selector) == IF selector \in Selectors THEN MatchTable[selector] \cap dom ELSE {}

\* $(UI_SELECTORS.join(', '))
CatalogMatched == UNION {MatchTable[sel] : sel \in Catalog}
CatalogElements == CatalogMatched \cap dom

\* the catalog selectors that match an element of the full page
LiveCatalog == {sel \in Catalog : MatchTable[sel] # {}}

\* $('#hotbar .macro') and $('#sidebar-tabs .item')
MacroElements == {"macro1"} \cap dom
SidebarItems == {"tabChat", "tabFoo"} \cap dom

\* the catalog-matched ancestors of an element, for event bubbling
Ancestors(e) == IF e \in {"sc1", "sc2"} THEN {"controls"} ELSE {}

-----------------------------------------------------------------------------
(* The controller's state as one record, so that a handler is the          *)
(* composition of the methods it calls.                                    *)

Cur ==
    [editing |-> editing, activeProfile |-> activeProfile, profiles |-> profiles,
     addedButtons |-> addedButtons, savedProfiles |-> savedProfiles,
     userFlags |-> userFlags, hidden |-> hidden, hideActive |-> hideActive,
     delegated |-> delegated, globalHandlers |-> globalHandlers,
     hotbarHandlers |-> hotbarHandlers, sidebarHandlers |-> sidebarHandlers,
     mainControls |-> mainControls, containers |-> containers,
     pendingRenders |-> pendingRenders, observers |-> observers,
     callbacks |-> callbacks, ready |-> ready, notification |-> notification]

\* the bounds of the model, as a guard of every handler
WithinBounds(s) ==
    /\ s.hotbarHandlers <= MaxHandlers
    /\ Len(s.containers) + Len(s.pendingRenders) <= MaxContainers
    /\ s.observers <= MaxObservers

Commit(s) ==
    /\ WithinBounds(s)
    /\ editing' = s.editing
    /\ activeProfile' = s.activeProfile
    /\ profiles' = s.profiles
    /\ addedButtons' = s.addedButtons
    /\ savedProfiles' = s.savedProfiles
    /\ userFlags' = s.userFlags
    /\ hidden' = s.hidden
    /\ hideActive' = s.hideActive
    /\ delegated' = s.delegated
    /\ globalHandlers' = s.globalHandlers
    /\ hotbarHandlers' = s.hotbarHandlers
    /\ sidebarHandlers' = s.sidebarHandlers
    /\ mainControls' = s.mainControls
    /\ containers' = s.containers
    /\ pendingRenders' = s.pendingRenders
    /\ observers' = s.observers
    /\ callbacks' = s.callbacks
    /\ ready' = s.ready
    /\ notification' = s.notification

-----------------------------------------------------------------------------
(* Host storage *)

HasFlag(flags, key) == key \in DOMAIN flags

setFlag(flags, key, value) ==
    [k \in DOMAIN flags \cup {key} |-> IF k = key THEN value ELSE flags[k]]

unsetFlag(flags, key) == [k \in DOMAIN flags \ {key} |-> flags[k]]

\* foundry.utils.mergeObject(original, other) on a profile collection: ids of
\* both sides are kept, and for an id of both the fields of other win, key by key
MergeObject(original, other) ==
    [id \in DOMAIN original \cup DOMAIN other |->
        IF id \notin DOMAIN other THEN original[id]
        ELSE IF id \notin DOMAIN original THEN other[id]
        ELSE [name |-> other[id].name,
              hiddenElements |->
                [k \in DOMAIN original[id].hiddenElements
                         \cup DOMAIN other[id].hiddenElements |->
                    IF k \in DOMAIN other[id].hiddenElements
                    THEN other[id].hiddenElements[k]
                    ELSE original[id].hiddenElements[k]]]]

\* a load that ignores the persisted data
getProfiles_DefaultsOnly(saved) == DEFAULT_PROFILES

\* a load without the merge into the defaults
getProfiles_NoDefaults(saved) == saved

getProfiles(saved) == MergeObject(DEFAULT_PROFILES, saved)

\* a save that writes nothing
saveProfiles_Skip(s) == s

saveProfiles(s) == [s EXCEPT !.savedProfiles = s.profiles]

-----------------------------------------------------------------------------
(* Visibility applier *)

\* $(UI_SELECTORS.join(', ')).removeClass('control-concealer-hide')
ResetVisibility(h) == h \ CatalogElements

\* for every [selector, isHidden] with isHidden: $(selector).addClass(...)
ApplyHidden(h, hiddenElements) ==
    h \cup UNION {Match(sel) : sel \in {k \in DOMAIN hiddenElements : hiddenElements[k]}}

applyVisualState(s) ==
    IF s.activeProfile \notin DOMAIN s.profiles THEN s
    ELSE [s EXCEPT !.hidden =
            ApplyHidden(ResetVisibility(s.hidden),
                        s.profiles[s.activeProfile].hiddenElements)]

\* lines 305-312: the switch itself
SwitchProfile(s, profileId) ==
    IF profileId \in DOMAIN s.profiles
    THEN [s EXCEPT !.activeProfile = profileId,
                   !.userFlags = setFlag(s.userFlags, FLAG_ACTIVE_PROFILE, profileId),
                   !.containers = [i \in DOMAIN s.containers |->
                                     [s.containers[i] EXCEPT !.active = {profileId}]]]
    ELSE s

\* the body class toggled instead of added and removed
ApplyActive_ToggleIndicator(s) ==
    IF s.activeProfile \notin DOMAIN s.profiles THEN s
    ELSE [s EXCEPT !.hideActive = ~s.hideActive,
                   !.hidden = ApplyHidden(ResetVisibility(s.hidden),
                                          s.profiles[s.activeProfile].hiddenElements)]

\* the body class added in edit mode too
ApplyActive_AlwaysHide(s) ==
    IF s.activeProfile \notin DOMAIN s.profiles THEN s
    ELSE [s EXCEPT !.hideActive = TRUE,
                   !.hidden = ApplyHidden(ResetVisibility(s.hidden),
                                          s.profiles[s.activeProfile].hiddenElements)]

\* lines 315-341: apply the active profile to the DOM
ApplyActive(s) ==
    IF s.activeProfile \notin DOMAIN s.profiles THEN s
    ELSE IF ~s.editing
    THEN [s EXCEPT !.hideActive = TRUE,
                   !.hidden = ApplyHidden(ResetVisibility(s.hidden),
                                          s.profiles[s.activeProfile].hiddenElements)]
    ELSE applyVisualState([s EXCEPT !.hideActive = FALSE,
                                    !.hidden = ResetVisibility(s.hidden)])

\* applyProfile without the edit-mode guard of lines 300-303
applyProfile_NoEditGuard(s, profileId) ==
    ApplyActive(IF profileId # NoArg THEN SwitchProfile(s, profileId) ELSE s)

applyProfile(s, profileId) ==
    IF profileId # NoArg /\ s.editing
    THEN [s EXCEPT !.notification = "error.EditActive"]
    ELSE ApplyActive(IF profileId # NoArg THEN SwitchProfile(s, profileId) ELSE s)

-----------------------------------------------------------------------------
(* Profile store mutations *)

resetActiveProfile(s) ==
    IF s.activeProfile \notin DOMAIN s.profiles THEN s
    ELSE [applyProfile(
            saveProfiles([s EXCEPT !.profiles[s.activeProfile].hiddenElements = EmptyMap]),
            s.activeProfile)
          EXCEPT !.notification = "info.ProfileReset"]

\* hasClass read as "every matched element carries the class"
CurrentHiddenElements_AllMarked(h) ==
    [sel \in {x \in LiveCatalog : Match(x) # {}} |-> Match(sel) \subseteq h]

\* lines 398-406: one key per catalog selector that matches a live element,
\* true when one of the matched elements carries the marker class
CurrentHiddenElements(h) ==
    [sel \in {x \in LiveCatalog : Match(x) # {}} |-> Match(sel) \cap h # {}]

\* an exit that merges the recomputed keys into the keys the profile held
saveCurrentProfile_KeepOld(s) ==
    saveProfiles(
        [s EXCEPT !.profiles[s.activeProfile].hiddenElements =
            CurrentHiddenElements(s.hidden) @@ @])

saveCurrentProfile(s) ==
    saveProfiles(
        [s EXCEPT !.profiles =
            [id \in DOMAIN s.profiles \cup {s.activeProfile} |->
                IF id = s.activeProfile
                THEN [name |-> s.profiles[id].name,
                      hiddenElements |-> CurrentHiddenElements(s.hidden)]
                ELSE s.profiles[id]]])

-----------------------------------------------------------------------------
(* Edit-mode controller *)

\* lines 234-271: the delegated handler is unbound before it is bound again;
\* the global, hotbar and sidebar handlers are bound once more on every call
setupEditModeListeners(s) ==
    applyVisualState([s EXCEPT !.delegated = 1,
                               !.globalHandlers = @ + 1,
                               !.hotbarHandlers = @ + 1,
                               !.sidebarHandlers = @ + 1])

\* an exit that leaves the delegated handler of the document bound
removeEditModeListeners_KeepDelegated(s) ==
    [s EXCEPT !.globalHandlers = 0, !.hotbarHandlers = 0, !.sidebarHandlers = 0]

\* lines 380-383
removeEditModeListeners(s) ==
    [s EXCEPT !.delegated = 0, !.globalHandlers = 0,
              !.hotbarHandlers = 0, !.sidebarHandlers = 0]

toggleEditMode(s) ==
    applyProfile(
        IF ~s.editing
        THEN setupEditModeListeners([s EXCEPT !.editing = TRUE,
                                              !.hideActive = FALSE,
                                              !.notification = "info.EditModeActive"])
        ELSE removeEditModeListeners(
                [saveCurrentProfile([s EXCEPT !.editing = FALSE])
                    EXCEPT !.hideActive = TRUE,
                           !.notification = "info.EditModeEnd"]),
        NoArg)

\* $target.toggleClass('control-concealer-hide'), n times
ToggleClass(h, e, n) == IF n % 2 = 0 THEN h ELSE (h \ {e}) \cup ({e} \ h)

\* handlers bound directly on the element (hotbar macros, sidebar tab items)
DirectHandlers(s, e) ==
    IF e \in MacroElements THEN s.hotbarHandlers
    ELSE IF e \in SidebarItems THEN s.sidebarHandlers
    ELSE 0

\* the element the delegated handler runs for: the innermost catalog element on
\* the path from the target to the document (the handler stops propagation)
DelegateTarget(e) ==
    IF e \in CatalogElements THEN {e} ELSE Ancestors(e) \cap CatalogElements

\* a contextmenu event on element e: the handlers bound on e run first, each
\* toggling e while editing and stopping the propagation to the document;
\* otherwise the delegated #onRightClickElement runs
DispatchContextMenu(s, e) ==
    IF s.editing /\ DirectHandlers(s, e) > 0
    THEN [s EXCEPT !.hidden = ToggleClass(s.hidden, e, DirectHandlers(s, e))]
    ELSE IF s.delegated > 0 /\ DelegateTarget(e) # {}
    THEN [s EXCEPT !.hidden =
            ToggleClass(s.hidden, CHOOSE x \in DelegateTarget(e) : TRUE, s.delegated)]
    ELSE s

\* event.preventDefault() has run for a contextmenu event on element e: in the
\* global handler or a direct handler while editing, or in the delegated handler
MenuSuppressed(s, e) ==
    \/ s.editing /\ (s.globalHandlers > 0 \/ DirectHandlers(s, e) > 0)
    \/ s.delegated > 0 /\ DelegateTarget(e) # {}

-----------------------------------------------------------------------------
(* Legacy migration *)

\* a control or tool descriptor is the set of its fields: {} is "not hidden"
Populated == {"icon", "name", "title"}

\* lines 445-466 (dev-tab) and 475-496 (prod-tab)
MigratedKeys(tab) ==
    {SceneControlSelector(i - 1) :
        i \in {j \in DOMAIN tab.hiddencontrols :
                 Cardinality(tab.hiddencontrols[j]) > 0}}
    \cup
    UNION {{ToolSelector(c - 1, j - 1) :
                j \in {x \in DOMAIN tab.hiddentools[c].tools :
                         Cardinality(tab.hiddentools[c].tools[x]) > 0}} :
            c \in {x \in DOMAIN tab.hiddentools : tab.hiddentools[x].hasTools}}
    \cup
    {TabSelector(tab.hiddentabs[i]) : i \in DOMAIN tab.hiddentabs}

MigratedElements(tab) == [k \in MigratedKeys(tab) |-> TRUE]

MigrateTab(s, flag, id) ==
    IF HasFlag(s.userFlags, flag)
    THEN [s EXCEPT !.profiles =
            [x \in DOMAIN s.profiles \cup {id} |->
                IF x = id
                THEN [name |-> "CONTROLCONCEALER.profile." \o id,
                      hiddenElements |-> MigratedElements(s.userFlags[flag])]
                ELSE s.profiles[x]]]
    ELSE s

\* a migration that leaves the legacy flags in place
FinishMigration_KeepFlags(s) == saveProfiles(s)

\* lines 504-509
FinishMigration(s) ==
    [saveProfiles(s) EXCEPT
        !.userFlags = unsetFlag(unsetFlag(s.userFlags, "dev-tab"), "prod-tab")]

migrateOldFormat(s) ==
    IF HasFlag(s.userFlags, "dev-tab") \/ HasFlag(s.userFlags, "prod-tab")
    THEN FinishMigration(MigrateTab(MigrateTab(s, "dev-tab", "dev"), "prod-tab", "prod"))
    ELSE s

-----------------------------------------------------------------------------
(* The controller's own buttons *)

\* lines 206-219: the template data is taken now, the markup is appended later
renderProfileButtons(s) ==
    [s EXCEPT !.pendingRenders = Append(@, s.activeProfile)]

setupButtonObserver(s) == [s EXCEPT !.observers = @ + 1]

addProfileButtons(s) ==
    IF Len(s.containers) > 0 THEN s
    ELSE IF ~s.mainControls THEN s
    ELSE setupButtonObserver([renderProfileButtons(s) EXCEPT !.addedButtons = TRUE])

\* lines 220-226, after the await: the markup is appended to the target, and the
\* click listeners are attached to target.find('#control-concealer'), which is
\* the first element of that id in the document
AppendButtons(s) ==
    LET added == Append(s.containers,
                        [active |-> {Head(s.pendingRenders)} \cap DOMAIN s.profiles,
                         clicks |-> 0])
    IN  [s EXCEPT !.pendingRenders = Tail(@),
                  !.containers = [added EXCEPT ![1].clicks = @ + 1],
                  !.callbacks = s.observers]

\* lines 191-196
ObserverRuns(s) ==
    IF Len(s.containers) = 0
    THEN renderProfileButtons([s EXCEPT !.callbacks = @ - 1])
    ELSE [s EXCEPT !.callbacks = @ - 1]

-----------------------------------------------------------------------------
(* Handlers *)

initialize(s) ==
    LET migrated == migrateOldFormat(s)
        restored == IF HasFlag(migrated.userFlags, FLAG_ACTIVE_PROFILE)
                    THEN [migrated EXCEPT
                            !.activeProfile = migrated.userFlags[FLAG_ACTIVE_PROFILE]]
                    ELSE migrated
    IN  applyProfile(addProfileButtons(restored), NoArg)

onRenderUI(s) ==
    LET buttons == IF ~s.addedButtons THEN addProfileButtons(s) ELSE s
        applied == applyProfile(buttons, NoArg)
    IN  IF applied.editing THEN setupEditModeListeners(applied) ELSE applied

\* lines 516-525
onProfileButtonClick(s, c, profileId) ==
    applyProfile(
        [s EXCEPT !.containers =
            [i \in DOMAIN s.containers |->
                [s.containers[i] EXCEPT
                    !.active = IF i = c THEN {profileId} ELSE {}]]],
        profileId)

\* a click runs every listener attached to the button
RECURSIVE ProfileClicks(_, _, _, _)
ProfileClicks(s, c, profileId, n) ==
    IF n = 0 THEN s
    ELSE ProfileClicks(onProfileButtonClick(s, c, profileId), c, profileId, n - 1)

RECURSIVE EditClicks(_, _)
EditClicks(s, n) == IF n = 0 THEN s ELSE EditClicks(toggleEditMode(s), n - 1)

RECURSIVE ResetClicks(_, _)
ResetClicks(s, n) == IF n = 0 THEN s ELSE ResetClicks(resetActiveProfile(s), n - 1)

-----------------------------------------------------------------------------
(* Initial states: a session right after the singleton is constructed       *)

\* what an earlier session can have left in the client setting: nothing, or a
\* collection saved on a page that showed scene controls and a hotbar macro
NoSaved == [id \in {} |-> DEFAULT_PROFILES["prod"]]

SavedSamples ==
    {NoSaved,
     [DEFAULT_PROFILES EXCEPT
        !["prod"].hiddenElements =
            ("#controls" :> FALSE) @@ (".scene-control" :> TRUE)
                @@ ("#hotbar .macro" :> TRUE)]}

\* the pages the model is run on
DomSamples ==
    {{"controls", "sc1"}, {"sc1", "sc2"}, {"macro1", "tabChat"}, {"tabChat", "tabFoo"}}

\* legacy flags of the older storage format
LegacySamples ==
    {[hiddencontrols |-> <<{}, Populated>>, hiddentools |-> <<>>,
      hiddentabs |-> <<"chat">>],
     [hiddencontrols |-> <<>>,
      hiddentools |-> <<[hasTools |-> TRUE, tools |-> <<Populated>>]>>,
      hiddentabs |-> <<"foo">>]}

\* the user flags holding an active profile (or none, "") and the legacy tabs
\* given as sets of at most one value
FlagsOf(active, devTab, prodTab) ==
    [k \in (IF active = "" THEN {} ELSE {FLAG_ACTIVE_PROFILE})
           \cup (IF devTab = {} THEN {} ELSE {"dev-tab"})
           \cup (IF prodTab = {} THEN {} ELSE {"prod-tab"}) |->
        IF k = FLAG_ACTIVE_PROFILE THEN active
        ELSE IF k = "dev-tab" THEN CHOOSE x \in devTab : TRUE
        ELSE CHOOSE x \in prodTab : TRUE]

\* lines 124-129, in a freshly loaded page
Constructed(saved, flags) ==
    [editing |-> FALSE, activeProfile |-> "prod", profiles |-> getProfiles(saved),
     addedButtons |-> FALSE, savedProfiles |-> saved, userFlags |-> flags,
     hidden |-> {}, hideActive |-> FALSE, delegated |-> 0, globalHandlers |-> 0,
     hotbarHandlers |-> 0, sidebarHandlers |-> 0, mainControls |-> FALSE,
     containers |-> <<>>, pendingRenders |-> <<>>, observers |-> 0,
     callbacks |-> 0, ready |-> FALSE, notification |-> "none"]

InitWith(saved, flags) ==
    /\ editing = Constructed(saved, flags).editing
    /\ activeProfile = Constructed(saved, flags).activeProfile
    /\ profiles = Constructed(saved, flags).profiles
    /\ addedButtons = Constructed(saved, flags).addedButtons
    /\ savedProfiles = saved
    /\ userFlags = flags
    /\ hidden = {}
    /\ hideActive = FALSE
    /\ delegated = 0
    /\ globalHandlers = 0
    /\ hotbarHandlers = 0
    /\ sidebarHandlers = 0
    /\ mainControls = FALSE
    /\ containers = <<>>
    /\ pendingRenders = <<>>
    /\ observers = 0
    /\ callbacks = 0
    /\ ready = FALSE
    /\ notification = "none"

\* the legacy flags a user can hold, as a pair (dev-tab, prod-tab) of sets of at
\* most one value: dev-tab alone, or both tabs
LegacyPairs ==
    {<<{l}, {}>> : l \in LegacySamples}
        \cup {<<{p[1]}, {p[2]}>> :
                p \in {q \in LegacySamples \X LegacySamples : q[1] # q[2]}}

\* a user of the current format, with or without a stored active profile
InitCurrent ==
    \E saved \in SavedSamples, active \in {"", "dev"} :
        InitWith(saved, FlagsOf(active, {}, {}))

\* a user who still holds flags of the legacy format
InitLegacy ==
    \E saved \in SavedSamples, legacy \in LegacyPairs :
        InitWith(saved, FlagsOf("", legacy[1], legacy[2]))

Init ==
    /\ dom \in DomSamples
    /\ (InitCurrent \/ InitLegacy)

-----------------------------------------------------------------------------
(* Actions: one per host event *)

\* Hooks.once('ready'): initialize()
Ready ==
    /\ ~ready
    /\ Commit(initialize([Cur EXCEPT !.ready = TRUE]))
    /\ UNCHANGED dom

\* Hooks.on('renderSceneControls'): onRenderUI, then addProfileButtons
\* (lines 106 and 121), after the host has rendered the scene controls
RenderSceneControls ==
    /\ Commit(addProfileButtons(onRenderUI([Cur EXCEPT !.mainControls = TRUE])))
    /\ UNCHANGED dom

\* Hooks.on('renderUI')
RenderUI ==
    /\ Commit(onRenderUI(Cur))
    /\ UNCHANGED dom

\* renderHotbar, renderPlayerList, renderChatLog, renderCombatTracker
RenderDynamic ==
    /\ Commit(applyProfile(Cur, NoArg))
    /\ UNCHANGED dom

\* canvasReady, renderSceneNavigation
AddButtonsHook ==
    /\ Commit(addProfileButtons(Cur))
    /\ UNCHANGED dom

\* the template render a renderProfileButtons call awaits has resolved
TemplateRendered ==
    /\ pendingRenders # <<>>
    /\ Commit(AppendButtons(Cur))
    /\ UNCHANGED dom

\* a queued MutationObserver callback runs
ObserverCallback ==
    /\ callbacks > 0
    /\ Commit(ObserverRuns(Cur))
    /\ UNCHANGED dom

\* the host removes the injected buttons from .main-controls
HostRemovesButtons ==
    /\ containers # <<>>
    /\ Commit([Cur EXCEPT !.containers = <<>>, !.callbacks = observers])
    /\ UNCHANGED dom

ProfileButtonClick ==
    \E c \in DOMAIN containers, profileId \in ProfileIds :
        /\ containers[c].clicks > 0
        /\ Commit(ProfileClicks(Cur, c, profileId, containers[c].clicks))
        /\ UNCHANGED dom

EditButtonClick ==
    \E c \in DOMAIN containers :
        /\ containers[c].clicks > 0
        /\ Commit(EditClicks(Cur, containers[c].clicks))
        /\ UNCHANGED dom

ResetButtonClick ==
    \E c \in DOMAIN containers :
        /\ containers[c].clicks > 0
        /\ Commit(ResetClicks(Cur, containers[c].clicks))
        /\ UNCHANGED dom

\* the user right-clicks an element
RightClick ==
    \E e \in dom :
        /\ Commit(DispatchContextMenu(Cur, e))
        /\ UNCHANGED dom

\* the page is reloaded: a new session starts from host storage
Reload ==
    /\ Commit(Constructed(savedProfiles, userFlags))
    /\ UNCHANGED dom

\* the program on its pages, without the removal of its buttons
Next ==
    \/ Ready
    \/ RenderSceneControls
    \/ RenderDynamic
    \/ TemplateRendered
    \/ ProfileButtonClick
    \/ EditButtonClick
    \/ ResetButtonClick
    \/ RightClick
    \/ Reload

Spec == Init /\ [][Next]_vars

-----------------------------------------------------------------------------------------------------------------------------------------------------
(* The program with the removal of its buttons, on one page and for a user  *)
(* of the current format                                                    *)

InitButtons ==
    /\ dom = {"sc1", "sc2"}
    /\ InitCurrent

NextButtons ==
    \/ Ready
    \/ RenderSceneControls
    \/ RenderUI
    \/ AddButtonsHook
    \/ TemplateRendered
    \/ ObserverCallback
    \/ HostRemovesButtons

SpecButtons == InitButtons /\ [][NextButtons]_vars

-----------------------------------------------------------------------------
(* The program for users who hold legacy flags *)

InitLegacyUser ==
    /\ dom \in DomSamples
    /\ InitLegacy

SpecLegacy == InitLegacyUser /\ [][Next]_vars

-----------------------------------------------------------------------------
(* The migration on every legacy tab within the bounds *)

SeqsUpTo(S, n) == UNION {[1..k -> S] : k \in 0..n}

Descriptors == {{}, Populated}

ToolsData ==
    {[hasTools |-> FALSE, tools |-> <<>>]}
        \cup {[hasTools |-> TRUE, tools |-> ts] :
                ts \in SeqsUpTo(Descriptors, MaxLegacyTools)}

LegacyTabs ==
    {[hiddencontrols |-> hc, hiddentools |-> ht, hiddentabs |-> tabs] :
        hc \in SeqsUpTo(Descriptors, MaxLegacyLen),
        ht \in SeqsUpTo(ToolsData, MaxLegacyLen),
        tabs \in SeqsUpTo({"chat", "foo"}, MaxLegacyTools)}

InitMigrate ==
    /\ dom = {"sc1", "sc2"}
    /\ \E saved \in SavedSamples, tab \in LegacyTabs :
            \/ InitWith(saved, FlagsOf("", {tab}, {}))
            \/ InitWith(saved, FlagsOf("", {}, {tab}))
            \/ \E other \in LegacySamples : InitWith(saved, FlagsOf("", {tab}, {other}))

NextMigrate ==
    \/ Ready
    \/ RenderDynamic
    \/ Reload

SpecMigrate == InitMigrate /\ [][NextMigrate]_vars

-----
(* Properties *)

\* the selectors a profile holds as hidden (an absent key counts as false)
HiddenSelectors(hiddenElements) ==
    {k \in DOMAIN hiddenElements : hiddenElements[k]}

\* the marker classes after one flip of element e
Flipped(h, e) == IF e \in h THEN h \ {e} ELSE h \cup {e}

LegacyPending == HasFlag(userFlags, "dev-tab") \/ HasFlag(userFlags, "prod-tab")

\* C1: in every state with editing true, applyProfile(profileId), for an existing
\* or a missing profile id, changes nothing but the notification, which becomes
\* the error: activeProfile, the active-profile flag, every profile's
\* hiddenElements, the persisted collection and the DOM stay as they were.
C1_SwitchRejectedWhileEditing ==
    editing =>
        \A profileId \in ProfileIds \cup {"ghost"} :
            applyProfile(Cur, profileId) = [Cur EXCEPT !.notification = "error.EditActive"]

\* a switch has been rejected in edit mode
C1_Witness == editing /\ notification = "error.EditActive"

\* C2: leaving edit mode recomputes the active profile's hiddenElements from the
\* live elements: for every catalog selector, it is hidden in the profile after
\* the exit exactly when a live element it matches carries the marker class at
\* the exit; a selector matching no live element is not hidden afterwards.
C2_ExitRecomputes ==
    editing =>
        LET recorded == HiddenSelectors(
                            toggleEditMode(Cur).profiles[activeProfile].hiddenElements)
            marked == UNION {SelectorsOf(e) : e \in dom \cap hidden}
        IN  \A sel \in Catalog : sel \in recorded <=> sel \in marked

\* edit mode has been left with a selector recorded hidden, on a page where the
\* profile's earlier hidden selector '#hotbar .macro' matches nothing
C2_Witness ==
    /\ ~editing
    /\ notification = "info.EditModeEnd"
    /\ activeProfile = "prod"
    /\ Match("#hotbar .macro") = {}
    /\ HiddenSelectors(profiles["prod"].hiddenElements) = {".scene-control"}
    /\ savedProfiles = profiles

\* C3: in Editing state no operation the user or the host can trigger other than
\* the edit button changes the persisted collection.
C3_NoPersistWhileEditing ==
    editing =>
        /\ \A e \in dom : DispatchContextMenu(Cur, e).savedProfiles = savedProfiles
        /\ \A profileId \in ProfileIds :
                applyProfile(Cur, profileId).savedProfiles = savedProfiles
        /\ onRenderUI(Cur).savedProfiles = savedProfiles
        /\ applyProfile(Cur, NoArg).savedProfiles = savedProfiles
        /\ resetActiveProfile(Cur).savedProfiles = savedProfiles

\* C4: while Editing, a right-click on a catalog element flips the marker class
\* of that element and of no other.
C4_RightClickFlipsOne ==
    editing =>
        \A e \in CatalogElements :
            DispatchContextMenu(Cur, e).hidden = Flipped(hidden, e)

\* C5: after applyProfile in Viewing, with or without a profile id, an element
\* carries the marker class exactly when a selector hidden in the active
\* profile matches it.
C5_MarkersAreTheProfile ==
    ~editing =>
        \A profileId \in ProfileIds \cup {NoArg} :
            LET r == applyProfile(Cur, profileId)
            IN  \A e \in dom :
                    e \in r.hidden <=>
                        \E sel \in HiddenSelectors(
                                      r.profiles[r.activeProfile].hiddenElements) :
                            sel \in SelectorsOf(e)

\* C6 as claimed: every key of every profile's hiddenElements is a catalog selector.
C6_KeysInCatalog ==
    \A id \in DOMAIN profiles : DOMAIN profiles[id].hiddenElements \subseteq Catalog

\* the selectors of the three forms the migration writes, within the bounds
C6_MigrationSelectors ==
    {".scene-control:nth-child(" \o ToString(n) \o ")" : n \in 1..MaxLegacyLen}
    \cup {".scene-control:nth-child(" \o ToString(n)
            \o ") + .sub-controls .control-tool:nth-child(" \o ToString(m) \o ")" :
                n \in 1..MaxLegacyLen, m \in 1..MaxLegacyTools}
    \cup {"#sidebar-tabs .item[data-tab=\"" \o tabId \o "\"]" : tabId \in {"chat", "foo"}}

\* C6 amended: every key of every profile's hiddenElements is a catalog selector
\* or a selector written by the legacy migration; the keys an exit from edit
\* mode writes are all catalog selectors, and a reset leaves no key.
C6_KeysCatalogOrMigrated ==
    /\ \A id \in DOMAIN profiles :
            DOMAIN profiles[id].hiddenElements
                \subseteq Catalog \cup C6_MigrationSelectors
    /\ editing =>
            DOMAIN toggleEditMode(Cur).profiles[activeProfile].hiddenElements
                \subseteq Catalog
    /\ DOMAIN resetActiveProfile(Cur).profiles[activeProfile].hiddenElements = {}

\* the active profile holds migrated keys outside the catalog while it is edited
C6_Witness ==
    /\ editing
    /\ DOMAIN profiles[activeProfile].hiddenElements \ Catalog # {}

\* C7: at most one injected #control-concealer container exists at any time.
C7_AtMostOneContainer == Len(containers) <= 1

\* C8: while a legacy flag is present no profile has been applied to the page
\* with an element marked.
C8_MigrationBeforeApply == LegacyPending => ~(hideActive /\ hidden # {})

\* the keys C9 names for a legacy tab: the position q of a sequence is array
\* index q - 1, so its selector counts child q
C9_ExpectedKeys(tab) ==
    {".scene-control:nth-child(" \o ToString(q) \o ")" :
        q \in {x \in 1..Len(tab.hiddencontrols) : tab.hiddencontrols[x] # {}}}
    \cup
    {".scene-control:nth-child(" \o ToString(p[1])
        \o ") + .sub-controls .control-tool:nth-child(" \o ToString(p[2]) \o ")" :
        p \in {x \in (1..MaxLegacyLen) \X (1..MaxLegacyTools) :
                 /\ x[1] <= Len(tab.hiddentools)
                 /\ x[2] <= Len(tab.hiddentools[x[1]].tools)
                 /\ tab.hiddentools[x[1]].tools[x[2]] # {}}}
    \cup
    {"#sidebar-tabs .item[data-tab=\"" \o tab.hiddentabs[q] \o "\"]" :
        q \in 1..Len(tab.hiddentabs)}

\* C9: the initialization replaces the hiddenElements of the profile of each
\* legacy tab present by exactly the keys the tab names, all true.
C9_MigrationKeys ==
    [][(~ready /\ ready') =>
        /\ HasFlag(userFlags, "dev-tab") =>
            profiles'["dev"].hiddenElements =
                [k \in C9_ExpectedKeys(userFlags["dev-tab"]) |-> TRUE]
        /\ HasFlag(userFlags, "prod-tab") =>
            profiles'["prod"].hiddenElements =
                [k \in C9_ExpectedKeys(userFlags["prod-tab"]) |-> TRUE]]_vars

\* the legacy tab {hiddencontrols: [{}, {icon, name, title}], hiddentabs: ["chat"]}
\* has been migrated into dev
C9_Witness ==
    /\ ready
    /\ ~LegacyPending
    /\ profiles["dev"].hiddenElements =
        (".scene-control:nth-child(2)" :> TRUE)
            @@ ("#sidebar-tabs .item[data-tab=\"chat\"]" :> TRUE)

\* C10: an initialization leaves no legacy flag and, when it found one, the
\* persisted collection equal to the converted one; an initialization that
\* finds none changes no profile and writes nothing; no legacy flag comes back.
C10_MigrationOnce ==
    [][/\ (~ready /\ ready') =>
            /\ ~LegacyPending'
            /\ LegacyPending => savedProfiles' = profiles'
            /\ ~LegacyPending => profiles' = profiles /\ savedProfiles' = savedProfiles
       /\ ~LegacyPending => ~LegacyPending']_vars

\* a later session of a migrated user has been initialized, and dev holds what
\* an exit from edit mode wrote (the migration writes no false value), not the
\* legacy data
C10_Witness ==
    /\ ready
    /\ notification = "none"
    /\ ~LegacyPending
    /\ \E k \in DOMAIN profiles["dev"].hiddenElements :
            ~profiles["dev"].hiddenElements[k]

\* C11: the in-memory collection holds the built-in profiles dev and prod in
\* every state: after the load from any persisted data, and after every
\* migration, switch, exit from edit mode and reset.
C11_BuiltInsPresent == {"dev", "prod"} \subseteq DOMAIN profiles

\* the controller loaded from empty persisted data and was initialized, with
\* dev the stored active profile
C11_Witness ==
    /\ savedProfiles = NoSaved
    /\ ready
    /\ activeProfile = "dev"
    /\ DOMAIN profiles = {"dev", "prod"}

\* C12: every step that changes the in-memory collection leaves the persisted
\* collection equal to it.
C12_MutationsPersist ==
    [][profiles' # profiles => savedProfiles' = profiles']_vars

\* an exit from edit mode has recorded a hidden selector in dev and saved it
C12_Witness ==
    /\ notification = "info.EditModeEnd"
    /\ activeProfile = "dev"
    /\ HiddenSelectors(profiles["dev"].hiddenElements) # {}
    /\ savedProfiles = profiles

\* C13: saving the collection the controller holds and loading it again gives
\* the same collection, profile id by profile id and key by key.
C13_SaveLoadRoundTrip == getProfiles(saveProfiles(Cur).savedProfiles) = profiles

\* the controller holds a collection with false and true values in both profiles
C13_Witness ==
    /\ ready
    /\ \A id \in {"dev", "prod"} :
            /\ HiddenSelectors(profiles[id].hiddenElements) # {}
            /\ \E k \in DOMAIN profiles[id].hiddenElements :
                    ~profiles[id].hiddenElements[k]

\* C14: applyProfile called twice in a row, for every profile id or none and in
\* both modes, leaves the marker classes and the hide indicator as one call does.
C14_ApplyIdempotent ==
    \A profileId \in ProfileIds \cup {NoArg} :
        LET once == applyProfile(Cur, profileId)
            twice == applyProfile(once, profileId)
        IN  /\ twice.hidden = once.hidden
            /\ twice.hideActive = once.hideActive

\* a profile that hides elements has been applied in Viewing
C14_Witness ==
    /\ ~editing
    /\ hideActive
    /\ activeProfile = "dev"
    /\ hidden # {}
    /\ HiddenSelectors(profiles["dev"].hiddenElements) # {}

\* C15: the controller starts in Viewing; in every state with editing true the
\* hide indicator is cleared; applyProfile in Viewing and the exit from edit
\* mode leave the indicator set.
C15_IndicatorTracksMode ==
    /\ ~editing
    /\ [](/\ editing => ~hideActive
          /\ ~editing =>
                \A profileId \in ProfileIds \cup {NoArg} :
                    applyProfile(Cur, profileId).hideActive
          /\ editing =>
                /\ ~toggleEditMode(Cur).editing
                /\ toggleEditMode(Cur).hideActive)

\* edit mode is on with a marked element, shown because the indicator is cleared
C15_Witness ==
    /\ editing
    /\ ~hideActive
    /\ hidden \cap CatalogElements # {}

\* C16: in every Viewing state a right-click on a catalog element changes no
\* marker class and leaves the host's context menu alone.
C16_NoInterceptorInViewing ==
    ~editing =>
        \A e \in CatalogElements :
            /\ DispatchContextMenu(Cur, e).hidden = hidden
            /\ ~MenuSuppressed(Cur, e)

\* an edit session has ended on a page whose hotbar macro carries the marker
C16_Witness ==
    /\ ~editing
    /\ notification = "info.EditModeEnd"
    /\ "macro1" \in hidden

\* C17: while Editing, a host render event (the hooks that call applyProfile()
\* and those that call onRenderUI) leaves the marker class of every element as
\* it is.
C17_RendersKeepMarkers ==
    editing =>
        /\ applyProfile(Cur, NoArg).hidden = hidden
        /\ onRenderUI(Cur).hidden = hidden

\* the hidden selectors of a profile that match a live element
LiveHidden(hiddenElements) ==
    {sel \in HiddenSelectors(hiddenElements) : Match(sel) # {}}

\* C18: entering edit mode and leaving it with no right-click in between leaves
\* the hidden selectors of the active profile (those matching no live element
\* aside, which an exit never records) and the elements marked in Viewing as
\* they were.
C18_EnterExitNoOp ==
    ~editing =>
        LET back == toggleEditMode(toggleEditMode(Cur))
        IN  /\ LiveHidden(back.profiles[activeProfile].hiddenElements)
                    = LiveHidden(profiles[activeProfile].hiddenElements)
            /\ back.hidden = applyProfile(Cur, NoArg).hidden

\* C19: after resetActiveProfile, in either mode, the active profile hides no
\* selector in memory and in storage and no other profile has changed; in the
\* next Viewing state (after the exit, when the reset was made while Editing)
\* the profile still hides no selector and no catalog element is marked.
C19_ResetDurable ==
    LET r == resetActiveProfile(Cur)
        viewing == IF r.editing THEN toggleEditMode(r) ELSE r
    IN  /\ HiddenSelectors(r.profiles[activeProfile].hiddenElements) = {}
        /\ r.savedProfiles = r.profiles
        /\ \A id \in DOMAIN profiles \ {activeProfile} : r.profiles[id] = profiles[id]
        /\ HiddenSelectors(viewing.profiles[activeProfile].hiddenElements) = {}
        /\ HiddenSelectors(viewing.savedProfiles[activeProfile].hiddenElements) = {}
        /\ viewing.hidden \cap CatalogElements = {}

\* C20: every injected container shows as active exactly the button of the
\* active profile.
C20_ActiveButtonIsActiveProfile ==
    \A i \in DOMAIN containers : containers[i].active = {activeProfile}

====
